---------------------------- MODULE Spec2Model ----------------------------
(***************************************************************************)
(* A model of opendrift/models/openoil/adios/oil.py: the ThinOil listing   *)
(* record, the OpendriftOil full record, the __require_gnome_oil__ guard   *)
(* and the guarded accessors, with the vapor-pressure correlation.         *)
(*                                                                         *)
(* Python objects are modelled by their instance dictionaries: a function  *)
(* from the names of the attributes that have been assigned to their       *)
(* values.  A class-level annotation such as "gnome_oil: dict" assigns     *)
(* nothing, so an attribute is present exactly when some statement has     *)
(* assigned it.  A call's outcome is a record [kind, val]: kind is "ok"    *)
(* or the class of the exception raised.                                   *)
(***************************************************************************)
EXTENDS Integers, Sequences, FiniteSets, TLC

VARIABLES
    d,      \* the listing fragment last handed to ThinOil.from_json
    thin,   \* the ThinOil that call produced, or None
    o,      \* the full record last handed to OpendriftOil(o)
    obj,    \* the OpendriftOil instance (its __dict__), or None
    res,    \* the last call and its outcome
    memo,   \* the first accessor call made on obj, its outcome, and whether
            \* another call has been made since
    ext,    \* the physical_properties models the last call invoked
    np      \* the results np.log and np.exp have returned where the platform
            \* decides the last bit: a set of [fn, arg, val]

vars == <<d, thin, o, obj, res, memo, ext, np>>

None == [py |-> "None"]

Ok(v) == [kind |-> "ok", val |-> v]
Raise(k) == [kind |-> k, val |-> None]

Restrict(f, S) == [k \in S |-> f[k]]

(***************************************************************************)
(* Strings whose characters matter (names) are sequences of characters.    *)
(***************************************************************************)
GENERIC == <<"G", "E", "N", "E", "R", "I", "C">>

\* Does needle occur in hay at offset i (0-based), compared from its j-th
\* character on?  The character-by-character comparison of str.__contains__.
RECURSIVE MatchAt(_, _, _, _)
MatchAt(needle, hay, i, j) ==
    IF j > Len(needle) THEN TRUE
    ELSE IF hay[i + j] # needle[j] THEN FALSE
    ELSE MatchAt(needle, hay, i, j + 1)

\* The scan of str.__contains__: the first offset from i on at which needle
\* matches, tried left to right; no offset beyond Len(hay) - Len(needle).
RECURSIVE FindFrom(_, _, _)
FindFrom(needle, hay, i) ==
    IF i + Len(needle) > Len(hay) THEN FALSE
    ELSE IF MatchAt(needle, hay, i, 1) THEN TRUE
    ELSE FindFrom(needle, hay, i + 1)

\* needle in hay, for str operands
StrIn(needle, hay) == FindFrom(needle, hay, 0)

(***************************************************************************)
(* Python's binding of a call's arguments to a function's parameters       *)
(* (self excluded): TypeError for an unexpected keyword, for a keyword     *)
(* that names a parameter already bound by position, and for a parameter   *)
(* left unbound; no parameter here has a default.                          *)
(***************************************************************************)
\* BindArgs as it would be if the callee also took **kwargs: keywords that
\* name no parameter are dropped instead of refused.
BindArgsLenient(params, pos, kw) ==
    LET names == {params[i] : i \in 1..Len(params)}
        byPos == {params[i] : i \in 1..Len(pos)}
    IN  IF \E k \in DOMAIN kw : k \in byPos THEN Raise("TypeError")
        ELSE IF \E k \in names : k \notin byPos /\ k \notin DOMAIN kw
             THEN Raise("TypeError")
        ELSE Ok([k \in names |->
                    IF k \in byPos
                    THEN pos[CHOOSE i \in 1..Len(pos) : params[i] = k]
                    ELSE kw[k]])

BindArgs(params, pos, kw) ==
    LET names == {params[i] : i \in 1..Len(params)}
        byPos == {params[i] : i \in 1..Len(pos)}
    IN  IF \E k \in DOMAIN kw : k \notin names THEN Raise("TypeError")
        ELSE IF \E k \in DOMAIN kw : k \in byPos THEN Raise("TypeError")
        ELSE IF \E k \in names : k \notin byPos /\ k \notin DOMAIN kw
             THEN Raise("TypeError")
        ELSE Ok([k \in names |->
                    IF k \in byPos
                    THEN pos[CHOOSE i \in 1..Len(pos) : params[i] = k]
                    ELSE kw[k]])

\* d[k] on a mapping: KeyError when the key is absent
GetItem(m, k) == IF k \in DOMAIN m THEN Ok(m[k]) ELSE Raise("KeyError")

(***************************************************************************)
(* ThinOil                                                                 *)
(***************************************************************************)
ThinOilParams ==
    <<"_id", "_type", "name", "API", "gnome_suitable", "labels", "location",
      "model_completeness", "product_type", "sample_date">>

ThinOilFields ==
    {"id", "type", "name", "API", "gnome_suitable", "labels", "location",
     "model_completeness", "product_type", "sample_date"}

MetadataKeys ==
    {"name", "API", "gnome_suitable", "labels", "location",
     "model_completeness", "product_type", "sample_date"}

\* ThinOil.__init__ with self.type = _id in place of self.type = _type
ThinOil__init__TypeFromId(a) ==
    [f \in ThinOilFields |->
        CASE f = "id" -> a["_id"]
          [] f = "type" -> a["_id"]
          [] OTHER -> a[f]]

\* ThinOil.__init__: each parameter is stored under its attribute name
ThinOil__init__(a) ==
    [f \in ThinOilFields |->
        CASE f = "id" -> a["_id"]
          [] f = "type" -> a["_type"]
          [] OTHER -> a[f]]

\* ThinOil(*pos, **kw): bind the arguments, then run __init__
ThinOil(pos, kw) ==
    LET b == BindArgs(ThinOilParams, pos, kw)
    IN  IF b.kind # "ok" THEN b ELSE Ok(ThinOil__init__(b.val))

\* ThinOil.from_json(d): ThinOil(d['_id'], d['type'], **d['attributes']['metadata'])
from_json(dd) ==
    LET id == GetItem(dd, "_id")
        ty == GetItem(dd, "type")
        at == GetItem(dd, "attributes")
    IN  IF id.kind # "ok" THEN id
        ELSE IF ty.kind # "ok" THEN ty
        ELSE IF at.kind # "ok" THEN at
        ELSE LET md == GetItem(at.val, "metadata")
             IN  IF md.kind # "ok" THEN md
                 ELSE ThinOil(<<id.val, ty.val>>, md.val)

Upper(c) ==
    CASE c = "g" -> "G" [] c = "e" -> "E" [] c = "n" -> "N" [] c = "r" -> "R"
      [] c = "i" -> "I" [] c = "c" -> "C" [] c = "u" -> "U" [] c = "d" -> "D"
      [] OTHER -> c

\* is_generic with the name upper-cased first: 'GENERIC' in self.name.upper()
is_generic_anycase(self) ==
    StrIn(GENERIC, [i \in 1..Len(self["name"]) |-> Upper(self["name"][i])])

\* ThinOil.is_generic: 'GENERIC' in self.name
is_generic(self) == StrIn(GENERIC, self["name"])


(***************************************************************************)
(* numpy float64 (IEEE 754 binary64).  A value is NaN, an infinity, or a   *)
(* finite value s * m * 2^x with sign s, a significand m of at most 53     *)
(* bits and x >= -1074.  The significand is a natural number held as a     *)
(* little-endian sequence of 15-bit limbs without leading zero limbs, so   *)
(* that every intermediate stays inside TLC's 32-bit integers.  Normal     *)
(* values have exactly 53 significand bits, subnormal values have          *)
(* x = -1074, and zero is m = <<>>, x = 0 with its sign.  An intermediate  *)
(* result that is used more than once is handed on as an operator argument, *)
(* which TLC evaluates once.                                                *)
(***************************************************************************)
B == 32768
LimbBits == 15
Precision == 53
MinExp == -1074
MaxExp == 971

Limb(a, i) == IF i <= Len(a) THEN a[i] ELSE 0

RECURSIVE BNorm(_)
BNorm(a) ==
    IF Len(a) = 0 THEN a
    ELSE IF a[Len(a)] = 0 THEN BNorm(SubSeq(a, 1, Len(a) - 1)) ELSE a

RECURSIVE BAddC(_, _, _, _)
BAddC(a, b, i, c) ==
    IF i > Len(a) /\ i > Len(b) THEN (IF c = 0 THEN <<>> ELSE <<c>>)
    ELSE LET t == Limb(a, i) + Limb(b, i) + c
         IN <<t % B>> \o BAddC(a, b, i + 1, t \div B)

BAdd(a, b) == BAddC(a, b, 1, 0)

\* a - b for a >= b
RECURSIVE BSubC(_, _, _, _)
BSubC(a, b, i, c) ==
    IF i > Len(a) THEN <<>>
    ELSE LET t == a[i] - Limb(b, i) - c
         IN IF t < 0 THEN <<t + B>> \o BSubC(a, b, i + 1, 1)
            ELSE <<t>> \o BSubC(a, b, i + 1, 0)

BSub(a, b) == BNorm(BSubC(a, b, 1, 0))

RECURSIVE BCmpAt(_, _, _)
BCmpAt(a, b, i) ==
    IF i = 0 THEN 0
    ELSE IF a[i] # b[i] THEN (IF a[i] > b[i] THEN 1 ELSE -1)
    ELSE BCmpAt(a, b, i - 1)

BCmp(a, b) ==
    IF Len(a) # Len(b) THEN (IF Len(a) > Len(b) THEN 1 ELSE -1)
    ELSE BCmpAt(a, b, Len(a))

RECURSIVE BMulSmallC(_, _, _, _)
BMulSmallC(a, m, i, c) ==
    IF i > Len(a) THEN (IF c = 0 THEN <<>> ELSE <<c>>)
    ELSE LET t == a[i] * m + c
         IN <<t % B>> \o BMulSmallC(a, m, i + 1, t \div B)

BMulSmall(a, m) == IF m = 0 THEN <<>> ELSE BMulSmallC(a, m, 1, 0)

RECURSIVE BMulAt(_, _, _)
BMulAt(a, b, j) ==
    IF j > Len(b) THEN <<>>
    ELSE BAdd(BMulSmall(a, b[j]), <<0>> \o BMulAt(a, b, j + 1))

BMul(a, b) == BNorm(BMulAt(a, b, 1))

BShl(a, k) ==
    IF Len(a) = 0 THEN a
    ELSE [i \in 1..(k \div LimbBits) |-> 0] \o BMulSmall(a, 2 ^ (k % LimbBits))

BShr(a, k) ==
    LET q == k \div LimbBits
        p == 2 ^ (k % LimbBits)
        h == 2 ^ (LimbBits - (k % LimbBits))
        n == Len(a) - q
    IN IF n <= 0 THEN <<>>
       ELSE BNorm([i \in 1..n |->
                     (a[q + i] \div p) + (Limb(a, q + i + 1) % p) * h])

BBit(a, i) == (Limb(a, i \div LimbBits + 1) \div 2 ^ (i % LimbBits)) % 2

\* some bit below bit k of a is set
BAnyBelow(a, k) ==
    \/ \E i \in 1..Len(a) : i <= k \div LimbBits /\ a[i] # 0
    \/ Limb(a, k \div LimbBits + 1) % 2 ^ (k % LimbBits) # 0

RECURSIVE Bits(_)
Bits(n) == IF n = 0 THEN 0 ELSE 1 + Bits(n \div 2)

BBitLen(a) ==
    IF Len(a) = 0 THEN 0 ELSE LimbBits * (Len(a) - 1) + Bits(a[Len(a)])

BFromInt(n) == BNorm(<<n % B, (n \div B) % B, n \div (B * B)>>)

BToInt(a) == Limb(a, 1) + B * Limb(a, 2)

NaN == [k |-> "nan", s |-> 0, m |-> <<>>, x |-> 0]
Inf(s) == [k |-> "inf", s |-> s, m |-> <<>>, x |-> 0]
SignedZero(s) == [k |-> "fin", s |-> s, m |-> <<>>, x |-> 0]
Zero == SignedZero(1)
IsZero(w) == w.k = "fin" /\ Len(w.m) = 0

\* the finite value s * m * 2^x, or the infinity it overflows to
Pack(s, m, x) ==
    IF x > MaxExp THEN Inf(s) ELSE [k |-> "fin", s |-> s, m |-> m, x |-> x]

\* the exponent of the last place of a value of l bits whose lowest bit is
\* worth 2^e
UlpExp(e, l) ==
    IF e + l - Precision < MinExp THEN MinExp ELSE e + l - Precision

\* s * q * 2^e for q of at most 54 bits: 2^53 is 2^52 with the exponent one up
RoundCarry(s, q, e) ==
    IF Len(q) = 0 THEN SignedZero(s)
    ELSE IF BBitLen(q) > Precision THEN Pack(s, BShr(q, 1), e + 1)
    ELSE Pack(s, q, e)

\* s * q * 2^e plus a dropped remainder: half says that the remainder is at
\* least half of 2^e, above that it is not exactly half
RoundOff(s, q, e, half, above) ==
    RoundCarry(s,
               IF half /\ (above \/ Limb(q, 1) % 2 = 1) THEN BAdd(q, <<1>>)
               ELSE q,
               e)

RoundTo(s, n, e, st, e1) ==
    IF e1 <= e THEN Pack(s, BShl(n, e - e1), e1)
    ELSE RoundOff(s, BShr(n, e1 - e), e1, BBit(n, e1 - e - 1) = 1,
                  st \/ BAnyBelow(n, e1 - e - 1))

\* s * n * 2^e rounded to the nearest float64, ties to even; st says that
\* the exact value lies strictly above n * 2^e (and below (n + 1) * 2^e).
Round(s, n, e, st) ==
    IF Len(n) = 0 THEN SignedZero(s)
    ELSE RoundTo(s, n, e, st, UlpExp(e, BBitLen(n)))

Abs(n) == IF n < 0 THEN -n ELSE n
Sgn(n) == IF n < 0 THEN -1 ELSE 1

\* the float64 of a Python int
IntVal(n) == Round(Sgn(n), BFromInt(Abs(n)), 0, FALSE)

Neg(v) == [v EXCEPT !.s = -(v.s)]

\* numpy multiply
XMul(x, y) ==
    CASE x.k = "nan" \/ y.k = "nan" -> NaN
      [] x.k = "inf" \/ y.k = "inf" ->
            IF IsZero(x) \/ IsZero(y) THEN NaN ELSE Inf(x.s * y.s)
      [] IsZero(x) \/ IsZero(y) -> SignedZero(x.s * y.s)
      [] OTHER -> Round(x.s * y.s, BMul(x.m, y.m), x.x + y.x, FALSE)

DivShift == 4 * LimbBits - Precision

\* the quotient limb of (r * B) / den and the remainder, for r < den and den
\* of four limbs with its top bit set: the estimate from the leading limbs
\* is at most two too large and is corrected downwards
RECURSIVE DivCorrect(_, _, _, _)
DivCorrect(r, den, q, t) ==
    IF BCmp(t, r) > 0 THEN DivCorrect(r, den, q - 1, BSub(t, den))
    ELSE <<q, BSub(r, t)>>

Min(a, b) == IF a <= b THEN a ELSE b

DivCorrectFrom(r, den, q) == DivCorrect(r, den, q, BMulSmall(den, q))

DivEstimate(r, den) ==
    DivCorrectFrom(r, den,
                   Min((Limb(r, 5) * B + Limb(r, 4)) \div den[4], B - 1))

DivLimb(r, den) == DivEstimate(IF Len(r) = 0 THEN r ELSE <<0>> \o r, den)

\* the quotient limbs lo after the limb q: <<the limbs, the remainder>>
DivJoin(q, lo) == <<lo[1] \o <<q>>, lo[2]>>

\* n more quotient limbs of r / den: <<the limbs, the remainder>>
RECURSIVE DivLimbs(_, _, _)
DivStep(hi, den, n) == DivJoin(hi[1], DivLimbs(hi[2], den, n - 1))

DivLimbs(r, den, n) ==
    IF n = 0 THEN <<<<>>, r>> ELSE DivStep(DivLimb(r, den), den, n)

\* the quotient with leading bit q0 and further limbs and remainder qr
DivRound(s, q0, qr, e) ==
    Round(s, IF q0 = 1 THEN qr[1] \o <<1>> ELSE BNorm(qr[1]), e,
          Len(qr[2]) # 0)

\* s * (a / b) * 2^e for a and b of four limbs with their top bits set
DivAligned(s, a, b, e) ==
    IF BCmp(a, b) >= 0
    THEN DivRound(s, 1, DivLimbs(BSub(a, b), b, 4), e - 4 * LimbBits)
    ELSE DivRound(s, 0, DivLimbs(a, b, 4), e - 4 * LimbBits)

\* the shift that brings a significand to four limbs with its top bit set
DivAlign(m) == Precision - BBitLen(m) + DivShift

\* numpy true_divide: x / 0 is an infinity or NaN and raises nothing
XDiv(x, y) ==
    CASE x.k = "nan" \/ y.k = "nan" -> NaN
      [] x.k = "inf" /\ y.k = "inf" -> NaN
      [] x.k = "inf" -> Inf(x.s * y.s)
      [] y.k = "inf" -> SignedZero(x.s * y.s)
      [] IsZero(y) -> IF IsZero(x) THEN NaN ELSE Inf(x.s * y.s)
      [] IsZero(x) -> SignedZero(x.s * y.s)
      [] OTHER ->
            DivAligned(x.s * y.s, BShl(x.m, DivAlign(x.m)),
                       BShl(y.m, DivAlign(y.m)),
                       (x.x - DivAlign(x.m)) - (y.x - DivAlign(y.m)))

\* hi + lo for finite nonzero values, a being the significand of hi at the
\* exponent of lo
AddAligned(hi, lo, a) ==
    IF hi.s = lo.s THEN Round(hi.s, BAdd(a, lo.m), lo.x, FALSE)
    ELSE IF BCmp(a, lo.m) = 0 THEN Zero
    ELSE IF BCmp(a, lo.m) > 0 THEN Round(hi.s, BSub(a, lo.m), lo.x, FALSE)
    ELSE Round(lo.s, BSub(lo.m, a), lo.x, FALSE)

\* hi + lo for finite nonzero values with hi.x >= lo.x; a value more than 56
\* binary places below the last place of hi does not change hi
AddOrdered(hi, lo) ==
    IF hi.x - lo.x > Precision + 3 THEN hi
    ELSE AddAligned(hi, lo, BShl(hi.m, hi.x - lo.x))

\* numpy add
XAdd(x, y) ==
    CASE x.k = "nan" \/ y.k = "nan" -> NaN
      [] x.k = "inf" /\ y.k = "inf" -> IF x.s = y.s THEN x ELSE NaN
      [] x.k = "inf" -> x
      [] y.k = "inf" -> y
      [] IsZero(x) /\ IsZero(y) -> IF x.s = y.s THEN x ELSE Zero
      [] IsZero(x) -> y
      [] IsZero(y) -> x
      [] OTHER -> IF x.x >= y.x THEN AddOrdered(x, y) ELSE AddOrdered(y, x)

\* numpy subtract
XSub(x, y) == XAdd(x, Neg(y))

\* the float64 nearest to n / dd: what a decimal literal of the source, or a
\* decimal input, denotes
Q(n, dd) == IF dd = 1 THEN IntVal(n) ELSE XDiv(IntVal(n), IntVal(dd))

\* x ** 2 on a float64 array is x * x
XSquare(x) == XMul(x, x)

\* v < 0
Negative(v) == v.k # "nan" /\ ~IsZero(v) /\ v.s = -1

\* x < y
Less(x, y) == Negative(XSub(x, y))

\* the positive normal value m * 2^x, for a significand m written out
Fin(m, x) == [k |-> "fin", s |-> 1, m |-> m, x |-> x]

\* The constants of log and exp are written out as float64 values: each is
\* the float64 nearest to the number named beside it.
\* 1.0 and 0.5
One == Fin(<<0, 0, 0, 128>>, -52)
Half == Fin(<<0, 0, 0, 128>>, -53)

\* log(2) = 0.6931471805599453, and its split into a high part with trailing
\* zero bits and a low part: Ln2Hi + Ln2Lo = log(2) to about 100 bits
Ln2 == Fin(<<14831, 32244, 14603, 177>>, -53)
Ln2Hi == Fin(<<0, 32192, 14603, 177>>, -53)
Ln2Lo == Fin(<<15478, 27378, 26556, 209>>, -85)

\* v * 2^n
Scale(v, n) == Round(v.s, v.m, v.x + n, FALSE)

\* x * y and x + y of finite values without rounding: the significand has
\* as many bits as the exact result takes
ExactMul(x, y) ==
    [k |-> "fin", s |-> x.s * y.s, m |-> BMul(x.m, y.m), x |-> x.x + y.x]

ExactAligned(hi, lo, a) ==
    IF hi.s = lo.s
    THEN [k |-> "fin", s |-> hi.s, m |-> BAdd(a, lo.m), x |-> lo.x]
    ELSE IF BCmp(a, lo.m) >= 0
    THEN [k |-> "fin", s |-> hi.s, m |-> BSub(a, lo.m), x |-> lo.x]
    ELSE [k |-> "fin", s |-> lo.s, m |-> BSub(lo.m, a), x |-> lo.x]

ExactOrdered(hi, lo) == ExactAligned(hi, lo, BShl(hi.m, hi.x - lo.x))

ExactAdd(x, y) ==
    IF Len(x.m) = 0 THEN y
    ELSE IF Len(y.m) = 0 THEN x
    ELSE IF x.x >= y.x THEN ExactOrdered(x, y) ELSE ExactOrdered(y, x)

\* p(z) = c[1] + z * (c[2] + z * (... + z * c[Len(c)]))
RECURSIVE Horner(_, _, _)
Horner(c, z, i) ==
    IF i = Len(c) THEN c[i] ELSE XAdd(c[i], XMul(z, Horner(c, z, i + 1)))

\* 1/1, 1/3, 1/5, ..., 1/23
LogCoef ==
    <<Fin(<<0, 0, 0, 128>>, -52),
      Fin(<<21845, 10922, 21845, 170>>, -54),
      Fin(<<6554, 13107, 26214, 204>>, -55),
      Fin(<<9362, 9362, 9362, 146>>, -55),
      Fin(<<18204, 14563, 18204, 227>>, -56),
      Fin(<<5958, 26810, 5957, 186>>, -56),
      Fin(<<15124, 10082, 17644, 157>>, -56),
      Fin(<<4369, 8738, 17476, 136>>, -56),
      Fin(<<7710, 15420, 30840, 240>>, -57),
      Fin(<<12072, 31043, 18970, 215>>, -57),
      Fin(<<1560, 12483, 1560, 195>>, -57),
      Fin(<<8548, 12822, 2849, 178>>, -57)>>

\* 0.7071
SqrtHalf == Fin(<<3355, 23488, 576, 181>>, -53)

\* n * log(2) + 2 * atanh(t) for t = t0 + t1 and z = t0^2, as
\* (n * Ln2Hi + 2 * t0) + (2 * t1 + 2 * t0 * (z/3 + z^2/5 + ...) + n * Ln2Lo):
\* the first sum is exact and the result is rounded once
LogTerms(t0, t1, n, z) ==
    Scale(ExactAdd(ExactAdd(XMul(n, Ln2Hi), Scale(t0, 1)),
                   XAdd(XAdd(Scale(t1, 1),
                             XMul(Scale(t0, 1),
                                  XMul(z, Horner(LogCoef, z, 2)))),
                        XMul(n, Ln2Lo))),
          0)

\* what the quotient t0 of (f - 1) / (f + 1) leaves: ((f - 1) - t0 * (f + 1))
\* / (f + 1), the numerator exact
LogResidue(f, t0) ==
    XDiv(Scale(ExactAdd(XSub(f, One), Neg(ExactMul(t0, ExactAdd(f, One)))), 0),
         XAdd(f, One))

LogQuotient(f, n, t0) == LogTerms(t0, LogResidue(f, t0), IntVal(n), XSquare(t0))

\* log(f * 2^n) for f in [sqrt(1/2), sqrt(2))
LogReduced(f, n) == LogQuotient(f, n, XDiv(XSub(f, One), XAdd(f, One)))

\* log(f * 2^n) for f in [1/2, 1)
LogNorm(f, n) ==
    IF Less(f, SqrtHalf) THEN LogReduced(Scale(f, 1), n - 1)
    ELSE LogReduced(f, n)

\* np.log(x): NaN below zero, -inf at zero.  For x = f * 2^n with f in
\* [sqrt(1/2), sqrt(2)): log(x) = n * log(2) + 2 * atanh((f - 1) / (f + 1)).
XLog(x) ==
    CASE x.k = "nan" -> NaN
      [] x.k = "inf" -> IF x.s > 0 THEN x ELSE NaN
      [] IsZero(x) -> Inf(-1)
      [] x.s < 0 -> NaN
      [] OTHER ->
            LogNorm(Pack(1, BShl(x.m, Precision - BBitLen(x.m)), -Precision),
                    x.x + BBitLen(x.m))

\* 1/0!, 1/1!, 1/2!, ..., 1/14!
ExpCoef ==
    <<Fin(<<0, 0, 0, 128>>, -52),
      Fin(<<0, 0, 0, 128>>, -52),
      Fin(<<0, 0, 0, 128>>, -53),
      Fin(<<21845, 10922, 21845, 170>>, -55),
      Fin(<<21845, 10922, 21845, 170>>, -57),
      Fin(<<4369, 8738, 17476, 136>>, -59),
      Fin(<<27671, 11650, 1456, 182>>, -62),
      Fin(<<8218, 13315, 1664, 208>>, -65),
      Fin(<<8218, 13315, 1664, 208>>, -68),
      Fin(<<18228, 19117, 30606, 184>>, -71),
      Fin(<<8028, 28401, 31038, 147>>, -74),
      Fin(<<17636, 20458, 6421, 215>>, -78),
      Fin(<<22680, 24561, 15203, 143>>, -81),
      Fin(<<27913, 10064, 18712, 176>>, -85),
      Fin(<<31901, 20864, 26066, 201>>, -89)>>

\* the integer part of a finite a >= 0 of magnitude below 2^29
IntPart(a) == IF IsZero(a) THEN 0 ELSE BToInt(BShr(a.m, -(a.x)))

\* the integer nearest to a finite v of magnitude below 2^29
NearestInt(v) == v.s * IntPart(XAdd([v EXCEPT !.s = 1], Half))

\* 1 / log(2) = 1.4426950408889634
InvLn2 == Fin(<<766, 19031, 21789, 184>>, -52)
\* 1024 * log(2) = 709.782712893384
ExpOverflow == Fin(<<14831, 32244, 14603, 177>>, -43)
\* -1075 * log(2) = -745.1332191019412
ExpUnderflow == Neg(Fin(<<12370, 10842, 9283, 186>>, -43))

\* 2^n * exp(rh + rl) for r = rh + rl, as 2^n * ((1 + rh) + (rl + r^2 *
\* (1/2! + r/3! + ...))): the first sum is exact and the result is rounded
\* once
ExpTerms(rh, rl, r, n) ==
    Scale(ExactAdd(ExactAdd(One, rh),
                   XAdd(rl, XMul(XSquare(r), Horner(ExpCoef, r, 3)))),
          n)

ExpParts(rh, rl, n) == ExpTerms(rh, rl, XAdd(rh, rl), n)

\* exp(x) = 2^n * exp(x - n * log(2)), the latter by its Taylor series
ExpReduced(x, n) ==
    ExpParts(XSub(x, XMul(IntVal(n), Ln2Hi)), Neg(XMul(IntVal(n), Ln2Lo)), n)

\* np.exp(x): inf above 1024 * log(2), 0.0 at and below -1075 * log(2), and
\* in between exp(x) = 2^n * exp(r) for x = n * log(2) + r, |r| <= log(2)/2.
XExp(x) ==
    CASE x.k = "nan" -> NaN
      [] x.k = "inf" -> IF x.s > 0 THEN x ELSE Zero
      [] Less(ExpOverflow, x) -> Inf(1)
      [] ~Less(ExpUnderflow, x) -> Zero
      [] OTHER -> ExpReduced(x, NearestInt(XMul(x, InvLn2)))

\* the float64 next to a finite nonzero v, away from zero
Away(v) == Round(v.s, BAdd(v.m, <<1>>), v.x, FALSE)

\* the float64 next to a finite nonzero v, toward zero
Toward(v) ==
    IF v.m = One.m /\ v.x > MinExp
    THEN Pack(v.s, BSub(BShl(v.m, 1), <<1>>), v.x - 1)
    ELSE Round(v.s, BSub(v.m, <<1>>), v.x, FALSE)

\* the values a platform's log or exp may return where the series gives w:
\* numpy's loops, the C library and the series each lie within one unit in
\* the last place of the exact value, so they agree up to the neighbouring
\* float64; infinities, zeros and NaN are the same everywhere
Near(w) ==
    IF w.k # "fin" \/ IsZero(w) THEN {w}
    ELSE {u \in {Toward(w), w, Away(w)} : u.k = "fin" /\ ~IsZero(u)}

\* the values np.log(x) and np.exp(x) may have; exp(0) is 1.0 everywhere
LogResults(x) == Near(XLog(x))
ExpResults(x) == IF IsZero(x) THEN {One} ELSE Near(XExp(x))

\* what the platform lib has returned for fn at the argument a
Known(lib, fn, a) == {e \in lib : e.fn = fn /\ e.arg = a}

\* np.log(x) and np.exp(x) on the platform lib: a function of the argument,
\* the same at every call
np_log(lib, x) ==
    IF Known(lib, "log", x) # {}
    THEN (CHOOSE e \in Known(lib, "log", x) : TRUE).val ELSE XLog(x)
np_exp(lib, x) ==
    IF Known(lib, "exp", x) # {}
    THEN (CHOOSE e \in Known(lib, "exp", x) : TRUE).val ELSE XExp(x)

\* the possible results vs of a first call of fn at a, each with the entry
\* the platform has from then on
Fresh(fn, a, vs) ==
    IF Cardinality(vs) = 1 THEN {<<u, {}>> : u \in vs}
    ELSE {<<u, {[fn |-> fn, arg |-> a, val |-> u]}>> : u \in vs}

\* the possible results of fn at a on the platform lib
Picks(lib, fn, a) ==
    IF Known(lib, fn, a) # {} THEN {<<e.val, {}>> : e \in Known(lib, fn, a)}
    ELSE Fresh(fn, a, IF fn = "log" THEN LogResults(a) ELSE ExpResults(a))

\* np.asarray(list): a one-dimensional array with the list's items, in order,
\* indexed from 0
asarray(l) ==
    [type |-> "ndarray", n |-> Len(l), item |-> [i \in 0..(Len(l) - 1) |-> l[i + 1]]]

(***************************************************************************)
(* OpendriftOil                                                            *)
(***************************************************************************)
\* self.a: the instance dictionary, then the class, which assigns none of
\* its annotated names; AttributeError when the attribute was never assigned
GetAttr(self, a) ==
    IF a \in DOMAIN self THEN Ok(self[a]) ELSE Raise("AttributeError")

\* self.a = v
SetAttr(self, a, v) ==
    [k \in DOMAIN self \cup {a} |-> IF k = a THEN v ELSE self[k]]

\* an instance before __init__ has assigned anything
NewObject == [k \in {} |-> None]

\* AdiosOil.from_py_json(attributes): the parsed record has the metadata and
\* the physical content of the attributes it was parsed from
from_py_json(attributes) ==
    [k \in {"metadata", "physical"} |-> attributes[k]]

\* copy.deepcopy(x): an equal value
deepcopy(x) == x

GnomeKeys ==
    {"api", "mass_fraction", "boiling_point", "molecular_weight",
     "bullwinkle_time", "bullwinkle_fraction", "emulsion_water_fraction_max",
     "k0y"}

\* gnome_oil.make_gnome_oil(oil): the flattened property dictionary of oil
make_gnome_oil(oil) ==
    [k \in GnomeKeys |->
        IF k = "api" THEN Q(oil["metadata"]["API"], 1) ELSE oil["physical"][k]]

\* OpendriftOil.__init__ with the suitability test inverted
OpendriftOil__init__Inverted(oo) ==
    LET data == GetItem(oo, "data")
    IN  IF data.kind # "ok" THEN data
        ELSE LET attrs == GetItem(data.val, "attributes")
        IN  IF attrs.kind # "ok" THEN attrs
        ELSE LET meta == GetItem(attrs.val, "metadata")
        IN  IF meta.kind # "ok" THEN meta
        ELSE LET id == GetItem(data.val, "_id")
        IN  IF id.kind # "ok" THEN id
        ELSE LET name == GetItem(meta.val, "name")
        IN  IF name.kind # "ok" THEN name
        ELSE LET oil == from_py_json(attrs.val)
                 self == SetAttr(SetAttr(SetAttr(SetAttr(NewObject,
                            "data", oo), "id", id.val), "name", name.val),
                            "oil", oil)
        IN  IF oil["metadata"]["gnome_suitable"]
            THEN Ok(self)
            ELSE Ok(SetAttr(self, "gnome_oil", make_gnome_oil(deepcopy(oil))))

\* OpendriftOil.__init__(self, o): the instance it leaves, or what it raises
OpendriftOil__init__(oo) ==
    LET data == GetItem(oo, "data")
    IN  IF data.kind # "ok" THEN data
        ELSE LET attrs == GetItem(data.val, "attributes")
        IN  IF attrs.kind # "ok" THEN attrs
        ELSE LET meta == GetItem(attrs.val, "metadata")
        IN  IF meta.kind # "ok" THEN meta
        ELSE LET id == GetItem(data.val, "_id")
        IN  IF id.kind # "ok" THEN id
        ELSE LET name == GetItem(meta.val, "name")
        IN  IF name.kind # "ok" THEN name
        ELSE LET oil == from_py_json(attrs.val)
                 self == SetAttr(SetAttr(SetAttr(SetAttr(NewObject,
                            "data", oo), "id", id.val), "name", name.val),
                            "oil", oil)
        IN  IF ~oil["metadata"]["gnome_suitable"]
            THEN Ok(self)
            ELSE Ok(SetAttr(self, "gnome_oil", make_gnome_oil(deepcopy(oil))))

\* What a method call leaves: the instance, the call's outcome, and the
\* physical_properties models it invoked.
Ret(self, out, e) == [self |-> self, out |-> out, ext |-> e]

\* physical_properties.Density(oil).at_temp(t, unit)
Density_at_temp(oil, t, unit) ==
    [model |-> "Density", oil |-> oil, t |-> t, unit |-> unit]

\* physical_properties.KinematicViscosity(oil).at_temp(t, temp_units=unit)
KinematicViscosity_at_temp(oil, t, unit) ==
    [model |-> "KinematicViscosity", oil |-> oil, t |-> t, unit |-> unit]

\* util.estimations.oil_water_surface_tension_from_api(api)
oil_water_surface_tension_from_api(api) ==
    [model |-> "oil_water_surface_tension_from_api", api |-> api]

density_at_temp(self, t, unit) ==
    Ret(self, Ok(Density_at_temp(self["oil"], t, unit)), {"Density"})

kvis_at_temp(self, t, unit) ==
    Ret(self, Ok(KinematicViscosity_at_temp(self["oil"], t, unit)),
        {"KinematicViscosity"})

\* mass_fraction that keeps the array it built: self._mass_fraction = ...
mass_fraction_cached(self) ==
    LET v == GetItem(self["gnome_oil"], "mass_fraction")
    IN  IF v.kind # "ok" THEN Ret(self, v, {})
        ELSE Ret(SetAttr(self, "_mass_fraction", asarray(v.val)),
                 Ok(asarray(v.val)), {})

mass_fraction(self) ==
    LET v == GetItem(self["gnome_oil"], "mass_fraction")
    IN  Ret(self, IF v.kind = "ok" THEN Ok(asarray(v.val)) ELSE v, {})

oil_water_surface_tension(self) ==
    LET v == GetItem(self["gnome_oil"], "api")
    IN  Ret(self, IF v.kind = "ok"
                  THEN Ok(oil_water_surface_tension_from_api(v.val)) ELSE v, {})

\* bulltime reading the key of bullwinkle
bulltime_fraction(self) ==
    Ret(self, GetItem(self["gnome_oil"], "bullwinkle_fraction"), {})

bulltime(self) == Ret(self, GetItem(self["gnome_oil"], "bullwinkle_time"), {})

bullwinkle(self) ==
    Ret(self, GetItem(self["gnome_oil"], "bullwinkle_fraction"), {})

emulsion_water_fraction_max(self) ==
    Ret(self, GetItem(self["gnome_oil"], "emulsion_water_fraction_max"), {})

molecular_weight(self) ==
    Ret(self, GetItem(self["gnome_oil"], "molecular_weight"), {})

k0y(self) == Ret(self, GetItem(self["gnome_oil"], "k0y"), {})

atmos_pressure == Q(101325, 1)
D_Zb == Q(97, 100)
R_cal == Q(1987, 1000)

\* C_2i with the sign of the offset slipped: 0.19 * boiling_point + 18
C_2i_of_plus(bp) == XAdd(XMul(Q(19, 100), bp), Q(18, 1))

\* C_2i = 0.19 * boiling_point - 18, for one component
C_2i_of(bp) == XSub(XMul(Q(19, 100), bp), Q(18, 1))

\* D_S, var and ln_Pi_Po for one component, lg being np.log(boiling_point)
D_S_of(lg) == XAdd(Q(875, 100), XMul(Q(1987, 1000), lg))

var_of(bp, temp) ==
    XSub(XDiv(Q(1, 1), XSub(bp, C_2i_of(bp))),
         XDiv(Q(1, 1), XSub(temp, C_2i_of(bp))))

ln_Pi_Po_of(bp, temp, lg) ==
    XMul(XDiv(XMul(D_S_of(lg), XSquare(XSub(bp, C_2i_of(bp)))),
              XMul(XMul(D_Zb, R_cal), bp)),
         var_of(bp, temp))

\* OpendriftOil.vapor_pressure(self, temp), statement by statement, each
\* array operation applied element-wise, on the platform lib
vapor_pressure(self, temp, lib) ==
    LET l == GetItem(self["gnome_oil"], "boiling_point")
    IN  IF l.kind # "ok" THEN Ret(self, l, {})
        ELSE
        LET boiling_point == asarray(l.val)
            I == DOMAIN boiling_point.item
            bp == boiling_point.item
            ln_Pi_Po == [i \in I |->
                           ln_Pi_Po_of(bp[i], temp, np_log(lib, bp[i]))]
            Pi == [i \in I |->
                      XMul(np_exp(lib, ln_Pi_Po[i]), atmos_pressure)]
        IN  Ret(self,
                Ok([type |-> "ndarray", n |-> boiling_point.n, item |-> Pi]),
                {})

\* the entries a platform gains when vapor_pressure meets the boiling point
\* bp at temp: one for np.log(bp) and one for np.exp of the exponent
ComponentPicks(lib, bp, temp) ==
    UNION {{lp[2] \cup ep[2] :
               ep \in Picks(lib, "exp", ln_Pi_Po_of(bp, temp, lp[1]))} :
           lp \in Picks(lib, "log", bp)}

Cross(S, R) == {p \cup r : p \in S, r \in R}

RECURSIVE NewEntries(_, _, _, _)
NewEntries(lib, bps, temp, i) ==
    IF i > Len(bps) THEN {{}}
    ELSE Cross(ComponentPicks(lib, bps[i], temp),
               NewEntries(lib, bps, temp, i + 1))

\* log and exp are functions: one value for each argument
Functional(es) ==
    \A e1 \in es, e2 \in es :
        (e1.fn = e2.fn /\ e1.arg = e2.arg) => e1.val = e2.val

\* the platforms after vapor_pressure has met the boiling points bps at temp
Platforms(lib, bps, temp) ==
    {lib \cup es : es \in {n \in NewEntries(lib, bps, temp, 1) : Functional(n)}}

\* the boiling points the call hands to np.log
LogArgs(self, call) ==
    IF /\ call.op = "vapor_pressure"
       /\ "gnome_oil" \in DOMAIN self
       /\ self["gnome_oil"] # None
       /\ "boiling_point" \in DOMAIN self["gnome_oil"]
    THEN self["gnome_oil"]["boiling_point"]
    ELSE <<>>

\* the decorated function f of each accessor
Method(self, call, lib) ==
    CASE call.op = "density_at_temp" -> density_at_temp(self, call.t, call.unit)
      [] call.op = "kvis_at_temp" -> kvis_at_temp(self, call.t, call.unit)
      [] call.op = "mass_fraction" -> mass_fraction(self)
      [] call.op = "oil_water_surface_tension" -> oil_water_surface_tension(self)
      [] call.op = "bulltime" -> bulltime(self)
      [] call.op = "bullwinkle" -> bullwinkle(self)
      [] call.op = "emulsion_water_fraction_max" ->
            emulsion_water_fraction_max(self)
      [] call.op = "vapor_pressure" -> vapor_pressure(self, call.t, lib)
      [] call.op = "molecular_weight" -> molecular_weight(self)
      [] call.op = "k0y" -> k0y(self)

\* __require_gnome_oil__(f), the wrapper w(self, *args, **kwargs):
\* if self.gnome_oil is None: raise NotFullOil(); return f(self, ...)
require_gnome_oil(self, call, lib) ==
    LET g == GetAttr(self, "gnome_oil")
    IN  IF g.kind # "ok" THEN Ret(self, g, {})
        ELSE IF g.val = None THEN Ret(self, Raise("NotFullOil"), {})
        ELSE Method(self, call, lib)

(***************************************************************************)
(* Inputs of the ThinOil operations                                        *)
(***************************************************************************)
MaxPad == 1
MaxDeviations == 1

PadChars == {" ", "G", "C"}
Pads == UNION {[1..k -> PadChars] : k \in 0..MaxPad}

Cores ==
    { GENERIC,
      <<"g", "e", "n", "e", "r", "i", "c">>,
      <<"G", "e", "n", "e", "r", "i", "c">>,
      <<"G", "E", "N", "E", "R", "I">>,
      <<"G", "E", "N", "E", " ", "R", "I", "C">>,
      <<"G", "E", "N", "E", "R", "I", "K">>,
      <<"C", "I", "R", "E", "N", "E", "G">> }

GENERIC_CRUDE == GENERIC \o <<" ", "C", "R", "U", "D", "E">>
generic_crude ==
    <<"g", "e", "n", "e", "r", "i", "c", " ", "c", "r", "u", "d", "e">>

Names == {GENERIC_CRUDE, generic_crude}
            \cup {p \o c \o s : p \in Pads, c \in Cores, s \in Pads}

Ids == {"AD00009", "EC02234"}

Metadata(name, gs) ==
    [k \in MetadataKeys |->
        CASE k = "name" -> name
          [] k = "API" -> 30
          [] k = "gnome_suitable" -> gs
          [] k = "labels" -> <<"Crude Oil", "Light Crude">>
          [] k = "location" -> "Norway"
          [] k = "model_completeness" -> 94
          [] k = "product_type" -> "Crude Oil NOS"
          [] k = "sample_date" -> "2011-01-01"]

\* keys a listing's metadata does not have
ExtraKeys == {"_id", "_type", "comment"}

Small(S) == {X \in SUBSET S : Cardinality(X) <= MaxDeviations}

\* the metadata of a fragment, without the keys of missing and with those of extra
MetadataVariants ==
    {[k \in (MetadataKeys \ missing) \cup extra |->
        IF k \in MetadataKeys THEN Metadata(GENERIC_CRUDE, TRUE)[k] ELSE "x"] :
     missing \in Small(MetadataKeys), extra \in Small(ExtraKeys)}

Fragment(id, md) ==
    [k \in {"_id", "type", "attributes"} |->
        CASE k = "_id" -> id
          [] k = "type" -> "oil"
          [] k = "attributes" -> [j \in {"metadata"} |-> md]]

\* a fragment keeping only the keys of keep ("metadata" is attributes' key)
Shape(f, keep) ==
    [k \in DOMAIN f \cap keep |->
        IF k = "attributes"
        THEN Restrict(f[k], DOMAIN f[k] \cap keep)
        ELSE f[k]]

TopKeys == {"_id", "type", "attributes", "metadata"}

ValidFragments ==
    {Fragment(id, Metadata(n, gs)) : id \in Ids, n \in Names, gs \in BOOLEAN}

FragmentVariants ==
    {Shape(Fragment("AD00009", md), keep) :
        md \in MetadataVariants, keep \in SUBSET TopKeys}

Fragments == ValidFragments \cup FragmentVariants

Call(op, t, unit) == [op |-> op, t |-> t, unit |-> unit]
NoCall == Call("none", Zero, "-")
NoRes == [call |-> NoCall, out |-> Ok(None)]
NoMemo == [call |-> NoCall, out |-> Ok(None), other |-> FALSE]

(***************************************************************************)
(* The ThinOil operations                                                  *)
(***************************************************************************)
InitThin ==
    /\ d \in Fragments
    /\ thin = None
    /\ o = None
    /\ obj = None
    /\ res = NoRes
    /\ memo = NoMemo
    /\ ext = {}
    /\ np = {}

\* thin = ThinOil.from_json(d)
FromJson ==
    /\ res.call = NoCall
    /\ LET out == from_json(d)
       IN  /\ thin' = IF out.kind = "ok" THEN out.val ELSE None
           /\ res' = [call |-> Call("from_json", Zero, "-"),
                      out |-> IF out.kind = "ok" THEN Ok(None) ELSE out]
    /\ UNCHANGED <<d, o, obj, memo, ext, np>>

\* thin.is_generic()
IsGeneric ==
    /\ thin # None
    /\ res' = [call |-> Call("is_generic", Zero, "-"), out |-> Ok(is_generic(thin))]
    /\ UNCHANGED <<d, thin, o, obj, memo, ext, np>>

NextThin == FromJson \/ IsGeneric

SpecThin == InitThin /\ [][NextThin]_vars

(***************************************************************************)
(* Inputs of the OpendriftOil operations                                   *)
(***************************************************************************)
MaxComponents == 2

\* Pseudo-components: boiling point (K), mass fraction, molecular weight.
\* In float64, 0.19 * bp - 18 is 286.0 at 1600 K, -18.0 at 0 K, is bp itself
\* at the float64 nearest to -200/9, and is +0.0 at the float64 nearest to
\* 1800/19 (0.19 * bp rounds to 18.0).
Component(bp, mf, mw) ==
    [boiling_point |-> bp, mass_fraction |-> mf, molecular_weight |-> mw]

Components ==
    { Component(Q(1600, 1), Q(1, 8), Q(800, 1)),
      Component(Q(0, 1), Q(0, 1), Q(1, 1)),
      Component(Q(-200, 9), Q(1, 16), Q(2, 1)),
      Component(Q(1800, 19), Q(1, 32), Q(30, 1)) }

ComponentLists == UNION {[1..n -> Components] : n \in 0..MaxComponents}

\* the component lists of the records whose whole life is explored: none,
\* one component, two components (0.19 * bp - 18 is 267.0 at 1500 K)
LifeLists ==
    { <<>>,
      <<Component(Q(1600, 1), Q(1, 8), Q(800, 1))>>,
      <<Component(Q(1500, 1), Q(1, 4), Q(700, 1)),
        Component(Q(0, 1), Q(1, 2), Q(1, 1))>> }

\* the physical content of a record: what make_gnome_oil flattens
Physical(cs, v) ==
    [k \in GnomeKeys \ {"api"} |->
        CASE k = "mass_fraction" -> [i \in 1..Len(cs) |-> cs[i].mass_fraction]
          [] k = "boiling_point" -> [i \in 1..Len(cs) |-> cs[i].boiling_point]
          [] k = "molecular_weight" ->
                [i \in 1..Len(cs) |-> cs[i].molecular_weight]
          [] k = "bullwinkle_time" -> IF v THEN Q(-999, 1) ELSE Q(3600, 1)
          [] k = "bullwinkle_fraction" -> IF v THEN Q(303, 1000) ELSE Q(1, 1)
          [] k = "emulsion_water_fraction_max" ->
                IF v THEN Q(9, 10) ELSE Q(0, 1)
          [] k = "k0y" -> IF v THEN Q(101, 50000000) ELSE Q(1, 400000)]

Physicals ==
    {Physical(cs, TRUE) : cs \in LifeLists}
    \cup {Physical(cs, FALSE) : cs \in {cs \in LifeLists : Len(cs) = 1}}

EKOFISK == <<"E", "K", "O", "F", "I", "S", "K">>

FullRecord(id, md, phys) ==
    [k \in {"data"} |->
        [j \in {"_id", "attributes"} |->
            IF j = "_id" THEN id
            ELSE [i \in {"metadata", "physical"} |->
                    IF i = "metadata" THEN md ELSE phys]]]

\* a full record keeping only the keys of keep, at each of its three levels
ShapeFull(f, keep) ==
    [k \in DOMAIN f \cap keep |->
        [j \in DOMAIN f[k] \cap keep |->
            IF j = "_id" THEN f[k][j]
            ELSE [i \in DOMAIN f[k][j] \cap (keep \cup {"physical"}) |->
                    IF i = "metadata"
                    THEN Restrict(f[k][j][i],
                                  DOMAIN f[k][j][i] \ ({"name"} \ keep))
                    ELSE f[k][j][i]]]]

FullKeys == {"data", "_id", "attributes", "metadata", "name"}

ValidRecords ==
    {FullRecord("AD00009", Metadata(EKOFISK, TRUE), ph) : ph \in Physicals}
    \cup {FullRecord("EC02234", Metadata(GENERIC_CRUDE, FALSE), ph) :
            ph \in {Physical(<<>>, TRUE)}
                     \cup {Physical(cs, FALSE) :
                             cs \in {cs \in LifeLists : Len(cs) = 1}}}

\* the suitable records over every component list
VaporRecords ==
    {FullRecord("AD00009", Metadata(EKOFISK, TRUE), Physical(cs, TRUE)) :
        cs \in ComponentLists}

MalformedRecords ==
    {ShapeFull(FullRecord("AD00009", Metadata(EKOFISK, gs),
                          Physical(<<>>, TRUE)), keep) :
        gs \in BOOLEAN, keep \in (SUBSET FullKeys) \ {FullKeys}}

FullRecords == ValidRecords \cup MalformedRecords

\* temperatures (K) handed to vapor_pressure: 286 is C_2i of the 1600 K
\* component and lies above that of the others, where the result is finite;
\* 280 lies below the C_2i of the 1600 K component, where the exponent is
\* large enough for exp to overflow, and so little above that of the 1500 K
\* component that exp underflows to 0.0
Temps == {Q(280, 1), Q(286, 1)}

\* the temperatures handed to vapor_pressure on a fresh instance: those of
\* Temps and the two zeros; 0.0 and -0.0 both equal the C_2i of the 1800/19 K
\* component (+0.0), temp - C_2i being +0.0 for the first and -0.0 for the
\* second
VaporTemps == Temps \cup {SignedZero(1), SignedZero(-1)}

\* temperatures and units handed to density_at_temp and kvis_at_temp
ModelTemps == {Q(288, 1)}
Units == {"K", "C"}

(***************************************************************************)
(* The OpendriftOil operations                                             *)
(***************************************************************************)
Init ==
    /\ d = None
    /\ thin = None
    /\ o \in FullRecords
    /\ obj = None
    /\ res = NoRes
    /\ memo = NoMemo
    /\ ext = {}
    /\ np = {}

\* obj = OpendriftOil(o)
Construct ==
    /\ res.call = NoCall
    /\ LET out == OpendriftOil__init__(o)
       IN  /\ obj' = IF out.kind = "ok" THEN out.val ELSE None
           /\ res' = [call |-> Call("OpendriftOil", Zero, "-"),
                      out |-> IF out.kind = "ok" THEN Ok(None) ELSE out]
    /\ UNCHANGED <<d, thin, o, memo, ext, np>>

\* obj.<accessor>(...): the wrapper w runs on obj
Invoke(op, t, unit) ==
    /\ obj # None
    /\ \E call \in {Call(op, t, unit)} :
         \E lib \in Platforms(np, LogArgs(obj, call), t) :
         \E r \in {require_gnome_oil(obj, call, lib)} :
           /\ obj' = r.self
           /\ np' = lib
           /\ res' = [call |-> call, out |-> r.out]
           /\ memo' = IF memo.call = NoCall
                      THEN [call |-> call, out |-> r.out, other |-> FALSE]
                      ELSE [memo EXCEPT !.other = @ \/ call # memo.call]
           /\ ext' = r.ext
    /\ UNCHANGED <<d, thin, o>>

DensityAtTemp ==
    \E t \in ModelTemps, u \in Units : Invoke("density_at_temp", t, u)
KvisAtTemp ==
    \E t \in ModelTemps, u \in Units : Invoke("kvis_at_temp", t, u)
MassFraction == Invoke("mass_fraction", Zero, "-")
OilWaterSurfaceTension == Invoke("oil_water_surface_tension", Zero, "-")
Bulltime == Invoke("bulltime", Zero, "-")
Bullwinkle == Invoke("bullwinkle", Zero, "-")
EmulsionWaterFractionMax == Invoke("emulsion_water_fraction_max", Zero, "-")
VaporPressure == \E t \in Temps : Invoke("vapor_pressure", t, "-")
MolecularWeight == Invoke("molecular_weight", Zero, "-")
K0y == Invoke("k0y", Zero, "-")

Next ==
    \/ Construct
    \/ DensityAtTemp
    \/ KvisAtTemp
    \/ MassFraction
    \/ OilWaterSurfaceTension
    \/ Bulltime
    \/ Bullwinkle
    \/ EmulsionWaterFractionMax
    \/ VaporPressure
    \/ MolecularWeight
    \/ K0y

Spec == Init /\ [][Next]_vars

(***************************************************************************)
(* vapor_pressure over every component list: one call on a fresh instance  *)
(***************************************************************************)
InitVapor ==
    /\ d = None
    /\ thin = None
    /\ o \in VaporRecords
    /\ obj = None
    /\ res = NoRes
    /\ memo = NoMemo
    /\ ext = {}
    /\ np = {}

\* the first accessor call on obj is vapor_pressure
VaporPressureFirst ==
    /\ memo.call = NoCall
    /\ \E t \in VaporTemps : Invoke("vapor_pressure", t, "-")

NextVapor == Construct \/ VaporPressureFirst

SpecVapor == InitVapor /\ [][NextVapor]_vars

(***************************************************************************)
(* Claims about ThinOil, checked under SpecThin                            *)
(***************************************************************************)
\* the shape from_json reads: the three keys, and metadata under attributes
HasShape(dd) ==
    /\ {"_id", "type", "attributes"} \subseteq DOMAIN dd
    /\ "metadata" \in DOMAIN dd["attributes"]

ValidFragment(dd) ==
    HasShape(dd) /\ DOMAIN dd["attributes"]["metadata"] = MetadataKeys

\* C6: for a valid listing fragment d, from_json(d) yields a ThinOil whose id
\* is d['_id'], whose type is d['type'], and whose other eight attributes
\* equal the same-named keys of d['attributes']['metadata'].
C6_FromJsonFields ==
    /\ (res.call # NoCall /\ ValidFragment(d)) => thin # None
    /\ thin # None =>
        /\ DOMAIN thin = ThinOilFields
        /\ thin["id"] = d["_id"]
        /\ thin["type"] = d["type"]
        /\ \A k \in MetadataKeys : thin[k] = d["attributes"]["metadata"][k]

C6_Witness ==
    /\ res.call.op = "from_json"
    /\ thin # None
    /\ thin["id"] = "EC02234"
    /\ thin["type"] = "oil"
    /\ thin["name"] = GENERIC_CRUDE
    /\ thin["gnome_suitable"] = FALSE

\* C7: from_json matches the fields strictly: it fails with KeyError or
\* TypeError, producing no ThinOil, when '_id', 'type' or
\* attributes.metadata is missing or the metadata keys are not exactly the
\* eight recognized ones, and it succeeds only on exactly that key set.
C7_StrictFields ==
    res.call # NoCall =>
        /\ (thin # None) <=> ValidFragment(d)
        /\ res.call.op = "from_json" =>
            /\ ~ValidFragment(d) => res.out.kind \in {"KeyError", "TypeError"}
            /\ ValidFragment(d) => res.out.kind = "ok"
            /\ (~HasShape(d)) => res.out.kind = "KeyError"

C7_Witness ==
    /\ res.call.op = "from_json"
    /\ res.out.kind = "TypeError"
    /\ thin = None
    /\ HasShape(d)
    /\ DOMAIN d["attributes"]["metadata"] = MetadataKeys \cup {"comment"}

\* C9: is_generic() is true exactly when the seven characters GENERIC occur
\* contiguously in name, compared case-sensitively and without trimming.
C9_IsGeneric ==
    res.call.op = "is_generic" =>
        LET name == thin["name"]
        IN  res.out.val =
                (\E i \in 1..Len(name) :
                    /\ i + 6 <= Len(name)
                    /\ \A j \in 1..7 : name[i + j - 1] = GENERIC[j])

C9_Witness ==
    /\ res.call.op = "is_generic"
    /\ thin["name"] = GENERIC_CRUDE
    /\ res.out.val = TRUE

(***************************************************************************)
(* Claims about OpendriftOil, checked under Spec                           *)
(***************************************************************************)
SimplifiedAccessors ==
    {"mass_fraction", "oil_water_surface_tension", "bulltime", "bullwinkle",
     "emulsion_water_fraction_max", "vapor_pressure", "molecular_weight", "k0y"}

ModelAccessors == {"density_at_temp", "kvis_at_temp"}

\* the parsed oil's metadata.gnome_suitable
Suitable(self) == self["oil"]["metadata"]["gnome_suitable"]

\* an attribute that has been assigned a value other than None
IsSet(self, a) == a \in DOMAIN self /\ self[a] # None

\* a record with every key __init__ reads
Constructible(oo) ==
    /\ "data" \in DOMAIN oo
    /\ {"_id", "attributes"} \subseteq DOMAIN oo["data"]
    /\ "metadata" \in DOMAIN oo["data"]["attributes"]
    /\ "name" \in DOMAIN oo["data"]["attributes"]["metadata"]

\* C1: on an instance built from a record that is not GNOME-suitable, every
\* accessor of the simplified set fails with NotFullOil and no other error.
C1_NotFullOil ==
    (obj # None /\ ~Suitable(obj) /\ res.call.op \in SimplifiedAccessors)
        => res.out.kind = "NotFullOil"

\* C2: after construction and after any accessor calls, gnome_oil is set
\* exactly when the record's gnome_suitable was true at construction, and
\* construction from a non-suitable record completes, leaving gnome_oil unset.
C2_GnomeOilIff ==
    /\ obj # None => (IsSet(obj, "gnome_oil") <=> Suitable(obj))
    /\ (res.call # NoCall /\ Constructible(o)) => obj # None
    /\ (obj # None /\ ~Suitable(obj)) => "gnome_oil" \notin DOMAIN obj

C2_Witness ==
    /\ obj # None
    /\ ~Suitable(obj)
    /\ "gnome_oil" \notin DOMAIN obj
    /\ res.call.op = "bulltime"
    /\ memo.other

\* C3: density_at_temp and kvis_at_temp on an instance that is not
\* GNOME-suitable fail with NotFullOil, before Density or KinematicViscosity
\* is invoked.
C3_GuardBeforeModel ==
    (obj # None /\ ~Suitable(obj) /\ res.call.op \in ModelAccessors)
        => (res.out.kind = "NotFullOil" /\ ext = {})

\* C4: an accessor call, failing or not, leaves the instance as it was (no
\* attribute changed, added or removed), and a call repeated after other
\* calls has the outcome it had the first time.
C4_Immutable ==
    /\ [][obj # None => obj' = obj]_vars
    /\ [](res.call = memo.call => res.out = memo.out)

C4_Witness ==
    /\ obj # None
    /\ memo.other
    /\ res.call = memo.call
    /\ res.call.op = "mass_fraction"
    /\ res.out.kind = "ok"
    /\ res.out.val.n = 2

\* C5: after construction an OpendriftOil has every ThinOil attribute, and
\* data and oil.
C5_ThinOilFields ==
    obj # None => (ThinOilFields \cup {"data", "oil"}) \subseteq DOMAIN obj

\* the gnome_oil key each passthrough accessor reads, according to the claim
PassKey(op) ==
    CASE op = "bulltime" -> "bullwinkle_time"
      [] op = "bullwinkle" -> "bullwinkle_fraction"
      [] op = "emulsion_water_fraction_max" -> "emulsion_water_fraction_max"
      [] op = "molecular_weight" -> "molecular_weight"
      [] op = "k0y" -> "k0y"
      [] op = "mass_fraction" -> "mass_fraction"

Passthroughs ==
    {"bulltime", "bullwinkle", "emulsion_water_fraction_max",
     "molecular_weight", "k0y", "mass_fraction"}

\* C8: on a GNOME-suitable instance each passthrough accessor returns the
\* value gnome_oil holds under its key, and mass_fraction an array with the
\* source's length, order and elements.
C8_Passthrough ==
    (obj # None /\ Suitable(obj) /\ res.call.op \in Passthroughs) =>
        LET src == obj["gnome_oil"][PassKey(res.call.op)]
        IN  /\ res.out.kind = "ok"
            /\ res.call.op # "mass_fraction" => res.out.val = src
            /\ res.call.op = "mass_fraction" =>
                /\ res.out.val.n = Len(src)
                /\ DOMAIN res.out.val.item = 0..(Len(src) - 1)
                /\ \A i \in 1..Len(src) : res.out.val.item[i - 1] = src[i]

C8_Witness ==
    /\ obj # None
    /\ Suitable(obj)
    /\ res.call.op = "mass_fraction"
    /\ res.out.kind = "ok"
    /\ res.out.val.n = 2
    /\ res.out.val.item[0] = Q(1, 4)
    /\ res.out.val.item[1] = Q(1, 2)

\* x == y as Python compares floats: NaN equals nothing, 0.0 equals -0.0
Eq(x, y) ==
    /\ x.k # "nan"
    /\ y.k # "nan"
    /\ x = y \/ (IsZero(x) /\ IsZero(y))

\* x > 0
Positive(x) == x.k # "nan" /\ ~IsZero(x) /\ x.s = 1

\* the closed form of C10 for one component: exp(D_S * (bp - C)^2
\* / (0.97 * 1.987 * bp) * (1/(bp - C) - 1/(temp - C))) * 101325.0, with
\* D_S = 8.75 + 1.987 * ln(bp) and C = 0.19 * bp - 18, in float64 with the
\* platform's log and exp
ClosedC(bp) == XSub(XMul(Q(19, 100), bp), Q(18, 1))
ClosedDS(bp) == XAdd(Q(875, 100), XMul(Q(1987, 1000), np_log(np, bp)))
ClosedCoef(bp) ==
    XDiv(XMul(ClosedDS(bp), XSquare(XSub(bp, ClosedC(bp)))),
         XMul(XMul(Q(97, 100), Q(1987, 1000)), bp))
ClosedForm(bp, temp) ==
    XMul(np_exp(np, XMul(ClosedCoef(bp),
                   XSub(XDiv(Q(1, 1), XSub(bp, ClosedC(bp))),
                        XDiv(Q(1, 1), XSub(temp, ClosedC(bp)))))),
         Q(101325, 1))

\* the last call is vapor_pressure on a GNOME-suitable instance
VaporPressureCalled ==
    obj # None /\ Suitable(obj) /\ res.call.op = "vapor_pressure"

\* the result is an array parallel to boiling_point whose entry for each
\* component is the closed form of that component's boiling point and temp
ParallelClosedForm ==
    LET bps == obj["gnome_oil"]["boiling_point"]
        temp == res.call.t
    IN  /\ res.out.kind = "ok"
        /\ res.out.val.n = Len(bps)
        /\ DOMAIN res.out.val.item = 0..(Len(bps) - 1)
        /\ \A i \in 1..Len(bps) :
              res.out.val.item[i - 1] = ClosedForm(bps[i], temp)

\* C10 as stated: vapor_pressure returns the parallel array of closed-form
\* values and, where temp == C or bp == C for a component, that component's
\* entry is infinite or NaN (and the call does not raise).
C10_Original ==
    VaporPressureCalled =>
        LET bps == obj["gnome_oil"]["boiling_point"]
            temp == res.call.t
        IN  /\ ParallelClosedForm
            /\ \A i \in 1..Len(bps) :
                  (Eq(temp, ClosedC(bps[i])) \/ Eq(bps[i], ClosedC(bps[i])))
                      => res.out.val.item[i - 1].k \in {"inf", "nan"}

\* C10, amended: vapor_pressure returns the parallel array of closed-form
\* values, evaluated in float64, and does not raise; where bp == C the entry
\* is NaN; where temp == C for a component whose coefficient
\* D_S * (bp - C)^2 / (0.97 * 1.987 * bp) is positive, temp - C is a zero
\* and the entry goes by its sign: +0.0 (every temp but -0.0) makes the
\* exponent -inf and the entry exactly 0.0, neither infinite nor NaN; -0.0
\* (temp is -0.0 and C is 0.0) makes the exponent +inf and the entry +inf.
C10_Amended ==
    VaporPressureCalled =>
        LET bps == obj["gnome_oil"]["boiling_point"]
            temp == res.call.t
        IN  /\ ParallelClosedForm
            /\ \A i \in 1..Len(bps) :
                  /\ Eq(bps[i], ClosedC(bps[i]))
                      => res.out.val.item[i - 1] = NaN
                  /\ (Eq(temp, ClosedC(bps[i]))
                        /\ Positive(ClosedCoef(bps[i])))
                      => res.out.val.item[i - 1] =
                            IF temp = SignedZero(-1) THEN Inf(1) ELSE Zero

\* at 286 K the 1600 K component (C = 286.0) has vapour pressure 0.0 and the
\* 1800/19 K component (C = 0.0) a positive finite one
C10_Witness ==
    /\ VaporPressureCalled
    /\ res.call.t = Q(286, 1)
    /\ obj["gnome_oil"]["boiling_point"] = <<Q(1600, 1), Q(1800, 19)>>
    /\ res.out.kind = "ok"
    /\ res.out.val.item[0] = Zero
    /\ res.out.val.item[1].k = "fin"
    /\ Positive(res.out.val.item[1])

=============================================================================
